---- MODULE Spec2Model ----
(***************************************************************************)
(* vibe-git: the session state machine, the workflow operations (start,    *)
(* stop, stash_and_vibe, commit_and_vibe, vibe_from_here, status, the      *)
(* signal handler), the file watcher's event handler and the auto-commit   *)
(* worker of src/src/vibe_git/main.py, over an abstract git repository.    *)
(*                                                                         *)
(* Modelling assumptions:                                                  *)
(*  - the process runs inside a git repository (find_git_repo succeeds);   *)
(*  - read-only git queries (branch --show-current, status --porcelain)    *)
(*    report the repository faithfully; every other git or gh command may  *)
(*    fail for reasons outside the model;                                  *)
(*  - the wall clock and the commit history are environment inputs: the    *)
(*    timestamp of a new branch and the count of commits since the         *)
(*    merge-base are drawn from small ranges where the code reads them;    *)
(*  - tool calls are served one at a time; the watcher, the worker and     *)
(*    the user's edits interleave with the steps of a call;                *)
(*  - nobody checks out branches outside the tool (SpecManual lifts this); *)
(*  - in Spec the handler's reading of the clock against last_commit_time  *)
(*    is the input elapsed of FileEvent; SpecHandler follows the clock and *)
(*    the handler's record on one handler taken alone;                     *)
(*  - SpecQuietFair is the server left alone under fair scheduling;        *)
(*  - in Spec a round of the worker's loop is one step; SpecWorker takes   *)
(*    a vibing session through stop with the worker's round split into     *)
(*    its four steps and the vibe branch's commits followed;               *)
(*  - SpecAtomic is atomic_state_transition taken alone, around a body     *)
(*    that calls transition_to any number of times and may raise;          *)
(*  - SpecWorkerFair is SpecWorker with the worker thread kept scheduled;  *)
(*    SpecEditsFair is the server under fair scheduling while files are    *)
(*    edited and the worker's git commands succeed;                        *)
(*  - SpecStateUtils, SpecIgnore, SpecFind and SpecPersistence apply the   *)
(*    functions of state_utils, should_ignore_path, find_git_repo and      *)
(*    SessionPersistence to inputs drawn from bounded sets; the state      *)
(*    file of SessionPersistence holds decodable text.                     *)
(***************************************************************************)
EXTENDS Integers, Sequences, FiniteSets, TLC

\* ------------------------------------------------------------------ bounds
MaxSessions == 2    \* watchers (observer + worker thread) ever started
MaxTime == 2        \* timestamps read from the clock range over 1..MaxTime
MaxCommits == 2     \* commits counted since the merge-base range over 0..MaxCommits
MaxInterval == 2    \* min_commit_interval of a handler studied alone ranges over 0..MaxInterval
MaxParts == 4       \* components of a path handed to should_ignore_path or find_git_repo
MaxTicks == 4       \* seconds the clock advances while a handler is studied alone

VARIABLES
    session,      \* session.state: [kind, branch_name, observer, commit_event, changes]
    pc,           \* position of the tool-call thread ("ready": no call in progress)
    op,           \* the tool being served
    result,       \* what the call returned ("none" while it runs)
    cmdLog,       \* the git/gh commands issued by the call so far
    trans,        \* the call of session.transition_to made by this step: <<from, to>>, or <<>>
    local,        \* locals of the running call
    curBranch,    \* git: the checked-out branch (Detached when HEAD is detached)
    branches,     \* git: the local branches
    unstaged,     \* git: files whose working-tree content differs from the index
    staged,       \* git: files whose index content differs from HEAD
    running,      \* observers started and not yet asked to stop
    started,      \* number of watchers started so far (observer/worker ids are 1..started)
    workers,      \* auto_commit_worker threads that are alive
    handler,      \* VibeFileHandler of the latest watcher: [last_commit_time, min_commit_interval]
    clock,        \* time.time() as the handler reads it, followed when a handler is studied alone
    delivered,    \* the last event handed to that handler: <<kind, time>>, or <<>>
    ahead,        \* git: messages of the vibe branch's commits since the merge-base, oldest first
    pushed,       \* origin: the same of the vibe branch as last pushed
    wpc,          \* position of the worker thread inside one round of its loop
    original_state, \* atomic_state_transition: the state saved on entering the with block
    observed,     \* the values of session.state a worker read while the with block was open
    call,         \* a utility function taken alone: [fn, args] of its latest application
    ret,          \* what that application returned or raised
    store         \* state_persistence: the files under .git/vibe-state

\* What only SpecWorker and SpecAtomic follow: the commit history, the worker's
\* steps inside a round, and the inside of a with block.
studyVars == <<ahead, pushed, wpc, original_state, observed>>

vars == <<session, pc, op, result, cmdLog, trans, local, curBranch, branches,
          unstaged, staged, running, started, workers, handler, clock, delivered,
          studyVars, call, ret, store>>

callVars == <<pc, op, result, cmdLog, local>>
gitVars == <<curBranch, branches, unstaged, staged>>
\* A utility function taken alone: untouched by the server, the watcher and the
\* worker.
utilVars == <<call, ret, store>>
handlerVars == <<handler, clock, delivered, utilVars>>
observerVars == <<running, started, workers, handlerVars>>
watchVars == <<observerVars, studyVars>>

\* ------------------------------------------------------------ data model
Detached == "(detached)"
Files == {"f.py"}
Ids == 1..MaxSessions

\* The commit_event of a VibingState is the flag of its threading.Event.
IdleState == [kind |-> "Idle", branch_name |-> "", observer |-> 0,
              commit_event |-> FALSE, changes |-> {}]
VibingState(b, o, e) == [kind |-> "Vibing", branch_name |-> b, observer |-> o,
                         commit_event |-> e, changes |-> {}]
DirtyState(b, c) == [kind |-> "Dirty", branch_name |-> b, observer |-> 0,
                     commit_event |-> FALSE, changes |-> c]

\* locals of a call: branch_name; main_branch (start); had_conflicts, pr_url (stop);
\* new_state (the VibingState start_file_watcher returned, not yet installed)
NoLocal == [branch_name |-> "", main_branch |-> "", had_conflicts |-> FALSE,
            pr_url |-> FALSE, new_state |-> IdleState]

\* str(VibeStopResult(success=True, pr_url, had_conflicts, warnings)): whether
\* the report carries a PR link and whether it carries the conflict warning
StopResult(pr_url, had_conflicts) ==
    IF pr_url
    THEN IF had_conflicts THEN "stopped_pr_with_warning" ELSE "stopped_pr"
    ELSE IF had_conflicts THEN "stopped_with_warning" ELSE "stopped"

\* Mutant of can_transition_to: a Dirty session can only go back to Idle.
can_transition_dirty_to_idle_only(from, to) ==
    \/ from = "Idle" /\ to \in {"Vibing", "Dirty"}
    \/ from = "Vibing" /\ to = "Idle"
    \/ from = "Dirty" /\ to = "Idle"

\* state_utils.can_transition_to: the five legal transitions
can_transition_to(from, to) ==
    \/ from = "Idle" /\ to \in {"Vibing", "Dirty"}
    \/ from = "Vibing" /\ to = "Idle"
    \/ from = "Dirty" /\ to \in {"Idle", "Vibing"}

\* Mutant of IsVibing: any state but Idle passes for a vibing one.
IsNotIdle(s) == s.kind # "Idle"

\* isinstance(state, VibingState)
IsVibing(s) == s.kind = "Vibing"

\* is_vibe_branch: branch.startswith("vibe-")
is_vibe_branch(b) == Len(b) >= 5 /\ SubSeq(b, 1, 5) = "vibe-"

\* BranchName(f"vibe-{timestamp}")
VibeBranchName(t) == "vibe-" \o ToString(t)

\* get_current_branch: None (here "") on a detached HEAD
get_current_branch == IF curBranch = Detached THEN "" ELSE curBranch

\* has_uncommitted_changes: (output non-empty, output) of status --porcelain
Porcelain == staged \cup unstaged
has_uncommitted_changes == Porcelain # {}

\* VibeFileHandler.__init__: last_commit_time = 0.0, min_commit_interval = 0.0
MinCommitInterval == 0
NewHandler == [last_commit_time |-> 0, min_commit_interval |-> MinCommitInterval]

\* ------------------------------------------------------- initial state
\* A repository whose default branch is main, master or neither, checked out
\* on one of its branches or detached, with a clean or a modified tree.
InitialRepos == {{"main"}, {"main", "vibe-old"}, {"master"}, {"dev"}}

\* Nothing of the history, the worker's round or a with block is followed.
NoStudy ==
    /\ ahead = <<>> /\ pushed = <<>> /\ wpc = "wait"
    /\ original_state = IdleState /\ observed = {}

\* No utility function has been applied and nothing has been persisted.
NoCall == [fn |-> "none", args |-> <<>>]
AbsentFile == [kind |-> "absent", members |-> {}]
\* tampered is history: the state file was written from outside the program
\* since the last save_session or delete_session.
NoStore == [state |-> AbsentFile, events |-> <<>>, tampered |-> FALSE]
NoUtil == call = NoCall /\ ret = "none" /\ store = NoStore

Init ==
    /\ session = IdleState
    /\ pc = "ready" /\ op = "none" /\ result = "none"
    /\ cmdLog = <<>> /\ trans = <<>> /\ local = NoLocal
    /\ \E repo \in InitialRepos :
          /\ branches = repo
          /\ curBranch \in (repo \ {"main"}) \cup (IF repo = {"main"} THEN {"main", Detached} ELSE {})
    /\ unstaged \in {{}, Files} /\ staged = {}
    /\ running = {} /\ started = 0 /\ workers = {}
    /\ handler = NewHandler /\ clock = 0 /\ delivered = <<>>
    /\ NoStudy /\ NoUtil

\* ------------------------------------------------------ git commands
\* git checkout <b> can succeed
CanCheckout(b) == b \in branches
\* git checkout -b <b> can succeed
CanCreate(b) == b \notin branches
\* git commit can succeed: something is staged
CanCommit == staged # {}

\* --------------------------------------------------- session plumbing
\* VibeSession.transition_to
TransitionTo(new) ==
    /\ session' = new
    /\ trans' = <<session.kind, new.kind>>

NoTransition == UNCHANGED session /\ trans' = <<>>

Return(r) == pc' = "done" /\ result' = r /\ local' = NoLocal
Goto(l) == pc' = l /\ UNCHANGED result
Cmd(c) == cmdLog' = cmdLog \o c

\* start_file_watcher: a new commit_event, a started observer, a started worker
\* thread, and the VibingState that holds them
StartFileWatcher(branch_name) ==
    /\ started' = started + 1
    /\ running' = running \cup {started + 1}
    /\ workers' = workers \cup {started + 1}
    /\ local' = [local EXCEPT !.new_state = VibingState(branch_name, started + 1, FALSE)]
    /\ handler' = NewHandler
    /\ UNCHANGED <<clock, delivered, studyVars, utilVars>>

\* observer.stop()
StopObserver(o) == running' = running \ {o}

\* ------------------------------------------------------- tool calls
Tools == {"start", "stop", "status", "stash", "commit", "vfh"}

\* The calls that can start a watcher are accepted while watcher ids remain.
MayStartWatcher(o) ==
    \/ o \in {"stash", "commit"}
    \/ o \in {"start", "vfh"} /\ ~IsVibing(session)

\* A client calls a tool: the server is idle and picks the call up.
Call(o) ==
    /\ pc = "ready"
    /\ MayStartWatcher(o) => started < MaxSessions
    /\ pc' = o /\ op' = o
    /\ NoTransition
    /\ UNCHANGED <<result, cmdLog, local, gitVars, watchVars>>

\* The returned string goes back to the client; the server waits for the next call.
Deliver ==
    /\ pc = "done"
    /\ pc' = "ready" /\ op' = "none" /\ result' = "none" /\ cmdLog' = <<>>
    /\ NoTransition
    /\ UNCHANGED <<local, gitVars, watchVars>>

\* ------------------------------------------------------------ start
\* Mutant of StartFromIdle: the check for uncommitted changes is skipped.
StartFromIdleUnchecked ==
    LET current == get_current_branch IN
    IF current # "" /\ is_vibe_branch(current)
    THEN /\ Cmd(<<"branch --show-current">>)
         /\ Goto("start_watch")
         /\ local' = [NoLocal EXCEPT !.branch_name = current]
         /\ NoTransition
    ELSE /\ Cmd(<<"branch --show-current">>)
         /\ Goto("start_main")
         /\ local' = NoLocal
         /\ NoTransition

\* Mutant of StartFromIdle: the dirty-tree check comes before the vibe-branch check.
StartFromIdleDirtyFirst ==
    LET current == get_current_branch IN
    IF has_uncommitted_changes
    THEN /\ Cmd(<<"branch --show-current", "status --porcelain">>)
         /\ TransitionTo(DirtyState(IF current # "" THEN current ELSE "unknown", Porcelain))
         /\ Return("dirty")
    ELSE IF current # "" /\ is_vibe_branch(current)
    THEN /\ Cmd(<<"branch --show-current">>)
         /\ Goto("start_watch")
         /\ local' = [NoLocal EXCEPT !.branch_name = current]
         /\ NoTransition
    ELSE /\ Cmd(<<"branch --show-current", "status --porcelain">>)
         /\ Goto("start_main")
         /\ local' = NoLocal
         /\ NoTransition

\* start_vibing_from_state(IdleState): the branch and dirty-tree checks
StartFromIdle ==
    LET current == get_current_branch IN
    IF current # "" /\ is_vibe_branch(current)
    THEN /\ Cmd(<<"branch --show-current">>)
         /\ Goto("start_watch")
         /\ local' = [NoLocal EXCEPT !.branch_name = current]
         /\ NoTransition
    ELSE IF has_uncommitted_changes
    THEN /\ Cmd(<<"branch --show-current", "status --porcelain">>)
         /\ TransitionTo(DirtyState(IF current # "" THEN current ELSE "unknown", Porcelain))
         /\ Return("dirty")
    ELSE /\ Cmd(<<"branch --show-current", "status --porcelain">>)
         /\ Goto("start_main")
         /\ local' = NoLocal
         /\ NoTransition

\* Mutant of StartDispatch: every state is served as IdleState.
StartDispatchAsIdle(kind) == StartFromIdle

\* Mutant of StartDispatch: a Dirty session is looked at again as an Idle one.
StartDispatchDirtyAgain(kind) ==
    CASE kind = "Idle" -> StartFromIdle
      [] kind = "Vibing" -> Return("already") /\ NoTransition /\ UNCHANGED cmdLog
      [] kind = "Dirty" -> StartFromIdle

\* start_vibing: dispatch of start_vibing_from_state on the type of session.state
StartDispatch(kind) ==
    CASE kind = "Idle" -> StartFromIdle
      [] kind = "Vibing" -> Return("already") /\ NoTransition /\ UNCHANGED cmdLog
      [] kind = "Dirty" -> Return("still_dirty") /\ NoTransition /\ UNCHANGED cmdLog

StartVibing ==
    /\ pc = "start"
    /\ StartDispatch(session.kind)
    /\ UNCHANGED <<op, gitVars, watchVars>>

\* start_vibing_from_state(IdleState()) as called by stash_and_vibe and commit_and_vibe
StartCheck ==
    /\ pc = "start_check"
    /\ StartFromIdle
    /\ UNCHANGED <<op, gitVars, watchVars>>

\* ensure_on_main_branch: checkout main, else checkout master
EnsureOnMainBranch ==
    /\ pc = "start_main"
    /\ \E okMain \in {FALSE, CanCheckout("main")}, okMaster \in {FALSE, CanCheckout("master")} :
          IF okMain
          THEN /\ Cmd(<<"checkout main">>)
               /\ curBranch' = "main"
               /\ local' = [local EXCEPT !.main_branch = "main"]
               /\ Goto("start_pull")
          ELSE IF okMaster
          THEN /\ Cmd(<<"checkout main", "checkout master">>)
               /\ curBranch' = "master"
               /\ local' = [local EXCEPT !.main_branch = "master"]
               /\ Goto("start_pull")
          ELSE /\ Cmd(<<"checkout main", "checkout master">>)
               /\ UNCHANGED curBranch
               /\ Return("err_checkout_main")
    /\ NoTransition
    /\ UNCHANGED <<op, branches, unstaged, staged, watchVars>>

\* Mutant of StartPull: a failed pull ends start with an error.
StartPullChecked ==
    /\ pc = "start_pull"
    /\ Cmd(<<"pull">>)
    /\ \E ok \in BOOLEAN :
          IF ok
          THEN Goto("start_create") /\ UNCHANGED local
          ELSE Return("err_pull")
    /\ NoTransition
    /\ UNCHANGED <<op, gitVars, watchVars>>

\* git pull origin <main_branch>: the outcome is ignored
StartPull ==
    /\ pc = "start_pull"
    /\ Cmd(<<"pull">>)
    /\ Goto("start_create")
    /\ NoTransition
    /\ UNCHANGED <<op, local, gitVars, watchVars>>

\* generate_timestamp, git checkout -b vibe-<timestamp>
StartCreate ==
    /\ pc = "start_create"
    /\ Cmd(<<"checkout -b">>)
    /\ \E timestamp \in 1..MaxTime :
          LET branch_name == VibeBranchName(timestamp) IN
          \E ok \in {FALSE, CanCreate(branch_name)} :
             IF ok
             THEN /\ branches' = branches \cup {branch_name}
                  /\ curBranch' = branch_name
                  /\ local' = [local EXCEPT !.branch_name = branch_name]
                  /\ Goto("start_watch")
             ELSE /\ UNCHANGED <<branches, curBranch>>
                  /\ Return("err_create")
    /\ NoTransition
    /\ UNCHANGED <<op, unstaged, staged, watchVars>>

\* new_state = start_file_watcher(repo_path, branch_name)
StartWatch ==
    /\ pc = "start_watch"
    /\ StartFileWatcher(local.branch_name)
    /\ Goto("start_transition")
    /\ NoTransition
    /\ UNCHANGED <<op, cmdLog, gitVars>>

\* session.transition_to(new_state), then the success report (vibe_from_here goes on)
StartTransition ==
    /\ pc = "start_transition"
    /\ TransitionTo(local.new_state)
    /\ IF op = "vfh"
       THEN Goto("vfh_changes") /\ UNCHANGED local
       ELSE Return(IF local.main_branch = "" THEN "reused" ELSE "created")
    /\ UNCHANGED <<op, cmdLog, gitVars, watchVars>>

\* ------------------------------------------------------------- stop
\* What stop_vibing does with the session when a hard step fails: it returns
\* the step's error and leaves session.state alone.
StopFail(r) == Return(r) /\ NoTransition

\* stop_vibing: the isinstance check, merge-base against main or master, and
\* the count of commits to squash
StopVibing ==
    /\ pc = "stop"
    /\ IF ~IsVibing(session)
       THEN Return("not_vibing") /\ UNCHANGED cmdLog
       ELSE \E okMain \in {FALSE, "main" \in branches}, okMaster \in {FALSE, "master" \in branches} :
               LET tried == IF okMain THEN <<"merge-base main">>
                            ELSE <<"merge-base main", "merge-base master">>
               IN IF ~okMain /\ ~okMaster
                  THEN Cmd(tried) /\ Return("err_branch_point")
                  ELSE \E commit_count \in 0..MaxCommits :
                          /\ Cmd(tried \o <<"rev-list --count">>)
                          /\ local' = [NoLocal EXCEPT !.branch_name = session.branch_name]
                          /\ Goto(IF commit_count > 1 THEN "stop_reset" ELSE "stop_checkout_main")
    /\ NoTransition
    /\ UNCHANGED <<op, gitVars, watchVars>>

\* git reset --soft <base_commit>: the squashed commits' content is left staged
StopResetCmd ==
    /\ pc = "stop_reset"
    /\ Cmd(<<"reset --soft">>)
    /\ \E ok \in BOOLEAN :
          IF ok
          THEN /\ staged' = Files
               /\ Goto("stop_squash") /\ UNCHANGED local /\ NoTransition
          ELSE /\ UNCHANGED staged
               /\ StopFail("err_reset")
    /\ UNCHANGED <<op, curBranch, branches, unstaged, observerVars>>

StopReset == StopResetCmd /\ UNCHANGED studyVars

\* git commit -m <commit_message> --no-verify
StopSquashCmd ==
    /\ pc = "stop_squash"
    /\ Cmd(<<"commit">>)
    /\ \E ok \in {FALSE, CanCommit} :
          IF ok
          THEN /\ staged' = {}
               /\ Goto("stop_amend") /\ UNCHANGED local /\ NoTransition
          ELSE /\ UNCHANGED staged
               /\ StopFail("err_squash")
    /\ UNCHANGED <<op, curBranch, branches, unstaged, observerVars>>

StopSquash == StopSquashCmd /\ UNCHANGED studyVars

\* git commit --amend --no-edit (the hooks run), then time.sleep(2)
StopAmend ==
    /\ pc = "stop_amend"
    /\ Cmd(<<"commit --amend">>)
    /\ \E ok \in BOOLEAN :
          IF ok
          THEN /\ staged' = {}
               /\ Goto("stop_checkout_main") /\ UNCHANGED local /\ NoTransition
          ELSE /\ UNCHANGED staged
               /\ StopFail("err_amend")
    /\ UNCHANGED <<op, curBranch, branches, unstaged, watchVars>>

\* git checkout main
StopCheckoutMain ==
    /\ pc = "stop_checkout_main"
    /\ Cmd(<<"checkout main">>)
    /\ \E ok \in {FALSE, CanCheckout("main")} :
          IF ok
          THEN /\ curBranch' = "main"
               /\ Goto("stop_pull") /\ UNCHANGED local /\ NoTransition
          ELSE /\ UNCHANGED curBranch
               /\ StopFail("err_checkout_main")
    /\ UNCHANGED <<op, branches, unstaged, staged, watchVars>>

\* git pull origin main
StopPull ==
    /\ pc = "stop_pull"
    /\ Cmd(<<"pull">>)
    /\ \E ok \in BOOLEAN :
          IF ok
          THEN Goto("stop_checkout_vibe") /\ UNCHANGED local /\ NoTransition
          ELSE StopFail("err_pull")
    /\ UNCHANGED <<op, gitVars, watchVars>>

\* Mutant of StopCheckoutVibe: stop rebases without checking the vibe branch out.
StopCheckoutVibeSkipped ==
    /\ pc = "stop_checkout_vibe"
    /\ Goto("stop_rebase") /\ UNCHANGED <<cmdLog, local>> /\ NoTransition
    /\ UNCHANGED <<op, gitVars, watchVars>>

\* git checkout <branch_name>
StopCheckoutVibe ==
    /\ pc = "stop_checkout_vibe"
    /\ Cmd(<<"checkout vibe">>)
    /\ \E ok \in {FALSE, CanCheckout(local.branch_name)} :
          IF ok
          THEN /\ curBranch' = local.branch_name
               /\ Goto("stop_rebase") /\ UNCHANGED local /\ NoTransition
          ELSE /\ UNCHANGED curBranch
               /\ StopFail("err_checkout_vibe")
    /\ UNCHANGED <<op, branches, unstaged, staged, watchVars>>

\* Mutant of StopRebase: a failed rebase leaves no trace in the result.
StopRebaseNoWarning ==
    /\ pc = "stop_rebase"
    /\ \E rebase_success \in BOOLEAN :
          /\ Cmd(IF rebase_success THEN <<"rebase">> ELSE <<"rebase", "rebase --abort">>)
          /\ UNCHANGED local
    /\ Goto("stop_push")
    /\ NoTransition
    /\ UNCHANGED <<op, gitVars, watchVars>>

\* git rebase main; on failure git rebase --abort and a warning
StopRebase ==
    /\ pc = "stop_rebase"
    /\ \E rebase_success \in BOOLEAN :
          /\ Cmd(IF rebase_success THEN <<"rebase">> ELSE <<"rebase", "rebase --abort">>)
          /\ local' = [local EXCEPT !.had_conflicts = ~rebase_success]
    /\ Goto("stop_push")
    /\ NoTransition
    /\ UNCHANGED <<op, gitVars, watchVars>>

\* git push -f -u origin <branch_name>, after either outcome of the rebase
StopPushCmd ==
    /\ pc = "stop_push"
    /\ Cmd(<<"push -f">>)
    /\ \E ok \in BOOLEAN :
          IF ok
          THEN Goto("stop_pr") /\ UNCHANGED local /\ NoTransition
          ELSE StopFail(IF local.had_conflicts THEN "err_rebase_push" ELSE "err_push")
    /\ UNCHANGED <<op, gitVars, observerVars>>

StopPush == StopPushCmd /\ UNCHANGED studyVars

\* Mutant of StopPR: a failed gh pr create ends stop with an error.
StopPRChecked ==
    /\ pc = "stop_pr"
    /\ Cmd(<<"gh pr create">>)
    /\ \E success \in BOOLEAN :
          IF success
          THEN /\ local' = [local EXCEPT !.pr_url = TRUE]
               /\ Goto("stop_final")
          ELSE Return("err_pr")
    /\ NoTransition
    /\ UNCHANGED <<op, gitVars, watchVars>>

\* gh pr create: pr_url is set "if success and output"; a failure is not an error
StopPR ==
    /\ pc = "stop_pr"
    /\ Cmd(<<"gh pr create">>)
    /\ \E success \in BOOLEAN, output \in BOOLEAN :
          local' = [local EXCEPT !.pr_url = success /\ output]
    /\ Goto("stop_final")
    /\ NoTransition
    /\ UNCHANGED <<op, gitVars, watchVars>>

\* Mutant of FinalCheckoutFailed: the outcome of the final checkout is not looked at.
FinalCheckoutUnchecked == Goto("stop_finish") /\ UNCHANGED local /\ NoTransition

\* "if not success: return Error switching back to main" after the final checkout
FinalCheckoutFailed == StopFail("err_final_checkout")

\* Mutant of StopFinalCheckout: stop goes on whether or not the checkout worked.
StopFinalCheckoutAssumed ==
    /\ pc = "stop_final"
    /\ Cmd(<<"checkout main">>)
    /\ \E ok \in {FALSE, CanCheckout("main")} :
          curBranch' = (IF ok THEN "main" ELSE curBranch)
    /\ Goto("stop_finish") /\ UNCHANGED local /\ NoTransition
    /\ UNCHANGED <<op, branches, unstaged, staged, watchVars>>

\* git checkout main, the return to the main branch
StopFinalCheckout ==
    /\ pc = "stop_final"
    /\ Cmd(<<"checkout main">>)
    /\ \E ok \in {FALSE, CanCheckout("main")} :
          IF ok
          THEN /\ curBranch' = "main"
               /\ Goto("stop_finish") /\ UNCHANGED local /\ NoTransition
          ELSE /\ UNCHANGED curBranch
               /\ FinalCheckoutFailed
    /\ UNCHANGED <<op, branches, unstaged, staged, watchVars>>

\* observer.stop(), observer.join, commit_event.set(), transition_to(IdleState()),
\* and the VibeStopResult with its warnings
StopFinish ==
    /\ pc = "stop_finish"
    /\ StopObserver(session.observer)
    /\ TransitionTo(IdleState)
    /\ Return(StopResult(local.pr_url, local.had_conflicts))
    /\ UNCHANGED <<op, cmdLog, gitVars, started, workers, handlerVars, studyVars>>

\* --------------------------------------- stash_and_vibe, commit_and_vibe
\* stash_and_vibe up to its call of start_vibing_from_state(IdleState())
StashAndVibe ==
    /\ pc = "stash"
    /\ IF ~has_uncommitted_changes
       THEN /\ Cmd(<<"status --porcelain">>)
            /\ Return("no_changes") /\ NoTransition
            /\ UNCHANGED <<unstaged, staged>>
       ELSE /\ Cmd(<<"status --porcelain", "stash push">>)
            /\ \E ok \in BOOLEAN :
                  IF ok
                  THEN /\ unstaged' = {} /\ staged' = {}
                       /\ TransitionTo(IdleState)
                       /\ Goto("start_check") /\ UNCHANGED local
                  ELSE /\ UNCHANGED <<unstaged, staged>>
                       /\ Return("err_stash") /\ NoTransition
    /\ UNCHANGED <<op, curBranch, branches, watchVars>>

\* Mutant of CommitAndVibe: the outcome of the WIP commit is not looked at.
CommitAndVibeUncheckedCommit ==
    /\ pc = "commit"
    /\ IF ~has_uncommitted_changes
       THEN /\ Cmd(<<"status --porcelain">>)
            /\ Return("no_changes") /\ NoTransition
            /\ UNCHANGED <<unstaged, staged>>
       ELSE \E okAdd \in BOOLEAN, okCommit \in BOOLEAN :
               IF ~okAdd
               THEN /\ Cmd(<<"status --porcelain", "add">>)
                    /\ Return("err_add") /\ NoTransition
                    /\ UNCHANGED <<unstaged, staged>>
               ELSE /\ Cmd(<<"status --porcelain", "add", "commit">>)
                    /\ staged' = (IF okCommit THEN {} ELSE Porcelain) /\ unstaged' = {}
                    /\ TransitionTo(IdleState)
                    /\ Goto("start_check") /\ UNCHANGED local
    /\ UNCHANGED <<op, curBranch, branches, watchVars>>

\* commit_and_vibe up to its call of start_vibing_from_state(IdleState())
CommitAndVibe ==
    /\ pc = "commit"
    /\ IF ~has_uncommitted_changes
       THEN /\ Cmd(<<"status --porcelain">>)
            /\ Return("no_changes") /\ NoTransition
            /\ UNCHANGED <<unstaged, staged>>
       ELSE \E okAdd \in BOOLEAN, okCommit \in BOOLEAN :
               IF ~okAdd
               THEN /\ Cmd(<<"status --porcelain", "add">>)
                    /\ Return("err_add") /\ NoTransition
                    /\ UNCHANGED <<unstaged, staged>>
               ELSE IF ~okCommit
               THEN /\ Cmd(<<"status --porcelain", "add", "commit">>)
                    /\ staged' = Porcelain /\ unstaged' = {}
                    /\ Return("err_commit") /\ NoTransition
               ELSE /\ Cmd(<<"status --porcelain", "add", "commit">>)
                    /\ staged' = {} /\ unstaged' = {}
                    /\ TransitionTo(IdleState)
                    /\ Goto("start_check") /\ UNCHANGED local
    /\ UNCHANGED <<op, curBranch, branches, watchVars>>

\* ---------------------------------------------------- vibe_from_here
\* Mutant of VibeFromHere: no check that a session is already active.
VibeFromHereUnguarded ==
    /\ pc = "vfh"
    /\ LET current_branch == get_current_branch IN
       IF current_branch = ""
       THEN /\ Cmd(<<"branch --show-current">>)
            /\ Return("err_no_branch") /\ UNCHANGED gitVars
       ELSE IF is_vibe_branch(current_branch)
       THEN /\ Cmd(<<"branch --show-current">>)
            /\ local' = [NoLocal EXCEPT !.branch_name = current_branch]
            /\ Goto("start_watch") /\ UNCHANGED gitVars
       ELSE /\ Cmd(<<"branch --show-current", "checkout -b">>)
            /\ \E timestamp \in 1..MaxTime :
                  LET branch_name == VibeBranchName(timestamp) IN
                  \E ok \in {FALSE, CanCreate(branch_name)} :
                     IF ok
                     THEN /\ branches' = branches \cup {branch_name}
                          /\ curBranch' = branch_name
                          /\ local' = [NoLocal EXCEPT !.branch_name = branch_name]
                          /\ Goto("start_watch")
                          /\ UNCHANGED <<unstaged, staged>>
                     ELSE Return("err_create") /\ UNCHANGED gitVars
    /\ NoTransition
    /\ UNCHANGED <<op, watchVars>>

\* vibe_from_here up to start_file_watcher
VibeFromHere ==
    /\ pc = "vfh"
    /\ LET current_branch == get_current_branch IN
       IF IsVibing(session)
       THEN Return("already") /\ UNCHANGED <<cmdLog, gitVars>>
       ELSE IF current_branch = ""
       THEN /\ Cmd(<<"branch --show-current">>)
            /\ Return("err_no_branch") /\ UNCHANGED gitVars
       ELSE IF is_vibe_branch(current_branch)
       THEN /\ Cmd(<<"branch --show-current">>)
            /\ local' = [NoLocal EXCEPT !.branch_name = current_branch]
            /\ Goto("start_watch") /\ UNCHANGED gitVars
       ELSE /\ Cmd(<<"branch --show-current", "checkout -b">>)
            /\ \E timestamp \in 1..MaxTime :
                  LET branch_name == VibeBranchName(timestamp) IN
                  \E ok \in {FALSE, CanCreate(branch_name)} :
                     IF ok
                     THEN /\ branches' = branches \cup {branch_name}
                          /\ curBranch' = branch_name
                          /\ local' = [NoLocal EXCEPT !.branch_name = branch_name]
                          /\ Goto("start_watch")
                          /\ UNCHANGED <<unstaged, staged>>
                     ELSE Return("err_create") /\ UNCHANGED gitVars
    /\ NoTransition
    /\ UNCHANGED <<op, watchVars>>

\* vibe_from_here after the transition: uncommitted changes raise the commit signal
VibeFromHereChanges ==
    /\ pc = "vfh_changes"
    /\ Cmd(<<"status --porcelain">>)
    /\ session' = [session EXCEPT !.commit_event = @ \/ has_uncommitted_changes]
    /\ trans' = <<>>
    /\ Return("vibing_from_here")
    /\ UNCHANGED <<op, gitVars, watchVars>>

\* ----------------------------------------------------------- status
\* vibe_status: the report
StatusReport(s, current) ==
    IF IsVibing(s) /\ current = s.branch_name THEN "VIBING"
    ELSE IF s.kind = "Dirty" THEN "DIRTY"
    ELSE IF current # "" /\ is_vibe_branch(current) THEN "VIBE_BRANCH_DETECTED"
    ELSE "IDLE"

\* Mutant of StatusResets: an undeterminable current branch is not a mismatch.
StatusResetsOnKnownBranch(s, current) ==
    IsVibing(s) /\ current # "" /\ current # s.branch_name

\* vibe_status: a Vibing state whose branch is not the current one is reset
StatusResets(s, current) == IsVibing(s) /\ current # s.branch_name

VibeStatus ==
    /\ pc = "status"
    /\ Cmd(<<"branch --show-current">>)
    /\ IF StatusResets(session, get_current_branch)
       THEN TransitionTo(IdleState)
       ELSE NoTransition
    /\ Return(StatusReport(session, get_current_branch))
    /\ UNCHANGED <<op, gitVars, watchVars>>

\* --------------------------------------------------- signal handler
\* Mutant of SignalHandler: the observer is left running.
SignalHandlerNoStop ==
    /\ pc # "exited"
    /\ TransitionTo(IdleState)
    /\ pc' = "exited" /\ op' = "none" /\ result' = "none" /\ cmdLog' = <<>> /\ local' = NoLocal
    /\ UNCHANGED <<gitVars, watchVars>>

\* signal_handler: SIGINT/SIGTERM at any point of any call; the process exits
SignalHandler ==
    /\ pc # "exited"
    /\ IF IsVibing(session)
       THEN StopObserver(session.observer)
       ELSE UNCHANGED running
    /\ TransitionTo(IdleState)
    /\ pc' = "exited" /\ op' = "none" /\ result' = "none" /\ cmdLog' = <<>> /\ local' = NoLocal
    /\ UNCHANGED <<gitVars, started, workers, handlerVars, studyVars>>

\* ---------------------------------------------------- watcher, worker
EventKinds == {"modify", "revert", "touch", "dir", "gitdir", "ignored"}

\* Mutant of should_ignore_path: git check-ignore is not consulted.
should_ignore_git_only(kind) == kind = "gitdir"

\* VibeFileHandler.should_ignore_path: a .git component, or git check-ignore succeeds
should_ignore_path(kind) == kind \in {"gitdir", "ignored"}

\* VibeFileHandler.on_any_event: does the event set commit_event? elapsed is
\* current_time - last_commit_time, taken at its two extremes
OnAnyEventSignals(kind, elapsed) ==
    /\ kind # "dir"
    /\ ~should_ignore_path(kind)
    /\ ~(elapsed < MinCommitInterval)

\* The handler of observer o sets the commit_event of the state s it was created for.
Signalled(s, kind, elapsed) ==
    IF IsVibing(s) /\ s.observer \in running /\ OnAnyEventSignals(kind, elapsed)
    THEN [s EXCEPT !.commit_event = TRUE]
    ELSE s

\* A filesystem event under the repository root, delivered to the running observers.
\* "modify" leaves an uncommitted change in a file that is not ignored, "revert"
\* is the user undoing the unstaged edits.
FileEvent(kind, elapsed) ==
    /\ pc # "exited"
    /\ unstaged' = CASE kind = "modify" -> unstaged \cup Files
                     [] kind = "revert" -> {}
                     [] OTHER -> unstaged
    /\ session' = Signalled(session, kind, elapsed)
    /\ local' = [local EXCEPT !.new_state = Signalled(@, kind, elapsed)]
    /\ trans' = <<>>
    /\ UNCHANGED <<pc, op, result, cmdLog, curBranch, branches, staged, watchVars>>

\* auto_commit_worker, one round of the loop of a live worker once the signal of
\* the current session is set: clear it, query the status, add and commit
AutoCommit(w) ==
    /\ pc # "exited"
    /\ w \in workers
    /\ IsVibing(session)
    /\ session.commit_event
    /\ session' = [session EXCEPT !.commit_event = FALSE]
    /\ IF ~has_uncommitted_changes
       THEN UNCHANGED <<unstaged, staged>>
       ELSE \E okAdd \in BOOLEAN :
               LET index == IF okAdd THEN Porcelain ELSE staged IN
               \E okCommit \in {FALSE, index # {}} :
                  /\ unstaged' = IF okAdd THEN {} ELSE unstaged
                  /\ staged' = IF okCommit THEN {} ELSE index
    /\ trans' = <<>>
    /\ UNCHANGED <<callVars, curBranch, branches, watchVars>>

\* Mutant of WorkerExit: the worker leaves only when woken by a set signal.
WorkerExitOnSignal(w) ==
    /\ pc # "exited"
    /\ w \in workers
    /\ ~IsVibing(session) /\ session.commit_event
    /\ workers' = workers \ {w}
    /\ NoTransition
    /\ UNCHANGED <<callVars, gitVars, running, started, handlerVars, studyVars>>

\* auto_commit_worker leaves its loop when session.state is not a VibingState
WorkerExit(w) ==
    /\ pc # "exited"
    /\ w \in workers
    /\ ~IsVibing(session)
    /\ workers' = workers \ {w}
    /\ NoTransition
    /\ UNCHANGED <<callVars, gitVars, running, started, handlerVars, studyVars>>

\* ------------------------------------------------------ specification
\* One step of the tool call being served.
ToolStep ==
    \/ StartVibing
    \/ StartCheck
    \/ EnsureOnMainBranch
    \/ StartPull
    \/ StartCreate
    \/ StartWatch
    \/ StartTransition
    \/ StopVibing
    \/ StopReset
    \/ StopSquash
    \/ StopAmend
    \/ StopCheckoutMain
    \/ StopPull
    \/ StopCheckoutVibe
    \/ StopRebase
    \/ StopPush
    \/ StopPR
    \/ StopFinalCheckout
    \/ StopFinish
    \/ StashAndVibe
    \/ CommitAndVibe
    \/ VibeFromHere
    \/ VibeFromHereChanges
    \/ VibeStatus

Next ==
    \/ \E o \in Tools : Call(o)
    \/ Deliver
    \/ ToolStep
    \/ SignalHandler
    \/ \E kind \in EventKinds, elapsed \in {0, MaxTime} : FileEvent(kind, elapsed)
    \/ \E w \in Ids : AutoCommit(w)
    \/ \E w \in Ids : WorkerExit(w)

Spec == Init /\ [][Next]_vars

\* Between two tool calls of a vibing session the user checks out another
\* branch, or detaches HEAD, outside the tool.
ManualCheckout(b) ==
    /\ pc = "ready"
    /\ IsVibing(session)
    /\ b # curBranch
    /\ curBranch' = b
    /\ NoTransition
    /\ UNCHANGED <<callVars, branches, unstaged, staged, watchVars>>

NextManual ==
    \/ Next
    \/ \E b \in branches \cup {Detached} : ManualCheckout(b)

\* The tool in a repository whose user also switches branches by hand.
SpecManual == Init /\ [][NextManual]_vars

\* ------------------------------------------- one handler, studied alone
\* Mutant of RateLimited: an event exactly one interval after the last signal is dropped.
RateLimitedInclusive(h, now) == now - h.last_commit_time <= h.min_commit_interval

\* on_any_event: current_time - self.last_commit_time < self.min_commit_interval
RateLimited(h, now) == now - h.last_commit_time < h.min_commit_interval

\* VibeFileHandler.on_any_event on the handler of the session's observer, with
\* the clock read: directory events and ignored paths return early, so does an
\* event inside the rate limit; any other records the time and sets commit_event.
HandlerEvent(kind) ==
    /\ IsVibing(session) /\ session.observer \in running
    /\ LET signals == /\ kind # "dir"
                      /\ ~should_ignore_path(kind)
                      /\ ~RateLimited(handler, clock)
       IN /\ handler' = IF signals THEN [handler EXCEPT !.last_commit_time = clock] ELSE handler
          /\ session' = IF signals THEN [session EXCEPT !.commit_event = TRUE] ELSE session
    /\ delivered' = <<kind, clock>>
    /\ trans' = <<>>
    /\ UNCHANGED <<callVars, gitVars, running, started, workers, clock, studyVars, utilVars>>

\* A second passes.
Tick ==
    /\ clock < MaxInterval + MaxTicks
    /\ clock' = clock + 1
    /\ NoTransition
    /\ UNCHANGED <<callVars, gitVars, running, started, workers, handler, delivered,
                   studyVars, utilVars>>

\* A session vibing on vibe-1 with its watcher and worker, whose handler has
\* just been created with a min_commit_interval of 0 (main.py:210), 1
\* (src/main.py:78) or more. time.time() is far from the initial
\* last_commit_time of 0.0: the clock starts a full interval away from it.
InitHandler ==
    /\ session = VibingState(VibeBranchName(1), 1, FALSE)
    /\ pc = "ready" /\ op = "none" /\ result = "none"
    /\ cmdLog = <<>> /\ trans = <<>> /\ local = NoLocal
    /\ branches = {"main", VibeBranchName(1)} /\ curBranch = VibeBranchName(1)
    /\ unstaged = {} /\ staged = {}
    /\ running = {1} /\ started = 1 /\ workers = {1}
    /\ \E interval \in 0..MaxInterval :
          handler = [NewHandler EXCEPT !.min_commit_interval = interval]
    /\ clock = MaxInterval /\ delivered = <<>>
    /\ NoStudy /\ NoUtil

\* Events arrive, time passes, the worker consumes the signal.
NextHandler ==
    \/ \E kind \in EventKinds : HandlerEvent(kind)
    \/ Tick
    \/ \E w \in Ids : AutoCommit(w)

SpecHandler == InitHandler /\ [][NextHandler]_vars

\* A round of the worker's loop in which git add and git commit both succeed.
AutoCommitOk(w) ==
    /\ AutoCommit(w)
    /\ unstaged' = {} /\ staged' = {}

\* The server left alone: no signal is delivered, nothing touches the files, and
\* the worker's git commands succeed.
NextQuiet ==
    \/ \E o \in Tools : Call(o)
    \/ Deliver
    \/ ToolStep
    \/ \E w \in Ids : AutoCommitOk(w)
    \/ \E w \in Ids : WorkerExit(w)

\* Fair scheduling: the thread serving a call and each worker thread keep
\* taking their steps; clients are free to stop calling.
SpecQuietFair ==
    /\ Init /\ [][NextQuiet]_vars
    /\ WF_vars(ToolStep \/ Deliver)
    /\ \A w \in Ids : WF_vars(AutoCommitOk(w)) /\ WF_vars(WorkerExit(w))

\* The server with files being edited: every event is a modification of a file
\* that is not ignored, and the worker's git commands succeed.
NextEdits ==
    \/ \E o \in Tools : Call(o)
    \/ Deliver
    \/ ToolStep
    \/ \E elapsed \in {0, MaxTime} : FileEvent("modify", elapsed)
    \/ \E w \in Ids : AutoCommitOk(w)
    \/ \E w \in Ids : WorkerExit(w)

\* Fair scheduling as in SpecQuietFair; the user is free to stop editing.
SpecEditsFair ==
    /\ Init /\ [][NextEdits]_vars
    /\ WF_vars(ToolStep \/ Deliver)
    /\ \A w \in Ids : WF_vars(AutoCommitOk(w)) /\ WF_vars(WorkerExit(w))

\* ------------------------- stop beside a live worker, history followed
\* The message of the worker's commits and the commit_message given to stop.
AutoMessage == "Auto-commit"
StopMessage == "message"

\* stop_vibing's rev-list --count <base>..HEAD reads the history.
StopCount ==
    /\ StopVibing
    /\ pc' \in {"stop_reset", "stop_checkout_main"} => (pc' = "stop_reset" <=> Len(ahead) > 1)

\* git reset --soft <base_commit> takes the branch back to the merge-base.
StopResetHistory ==
    /\ StopResetCmd
    /\ ahead' = IF pc' = "stop_squash" THEN <<>> ELSE ahead
    /\ UNCHANGED <<pushed, wpc, original_state, observed>>

\* git commit -m <commit_message> adds one commit to the checked-out branch.
StopSquashHistory ==
    /\ StopSquashCmd
    /\ ahead' = IF pc' = "stop_amend" THEN Append(ahead, StopMessage) ELSE ahead
    /\ UNCHANGED <<pushed, wpc, original_state, observed>>

\* git push -f -u origin <branch_name>: origin takes the branch as it is.
StopPushHistory ==
    /\ StopPushCmd
    /\ pushed' = IF pc' = "stop_pr" THEN ahead ELSE pushed
    /\ UNCHANGED <<ahead, wpc, original_state, observed>>

\* The steps of stop_vibing that leave the vibe branch's history alone; git
\* commit --amend --no-edit replaces the last commit and keeps its message.
StopOtherStep ==
    \/ StopAmend
    \/ StopCheckoutMain
    \/ StopPull
    \/ StopCheckoutVibe
    \/ StopRebase
    \/ StopPR
    \/ StopFinalCheckout
    \/ StopFinish

\* auto_commit_worker: commit_event.wait(timeout=1) returns True, then clear()
WorkerWait(w) ==
    /\ pc # "exited"
    /\ w \in workers /\ wpc = "wait"
    /\ IsVibing(session)
    /\ session.commit_event
    /\ session' = [session EXCEPT !.commit_event = FALSE]
    /\ wpc' = "status"
    /\ trans' = <<>>
    /\ UNCHANGED <<callVars, gitVars, observerVars, ahead, pushed, original_state, observed>>

\* Mutant of WorkerStatus: the worker adds and commits whatever the status says.
WorkerStatusIgnored(w) ==
    /\ pc # "exited"
    /\ w \in workers /\ wpc = "status"
    /\ wpc' = "add"
    /\ NoTransition
    /\ UNCHANGED <<callVars, gitVars, observerVars, ahead, pushed, original_state, observed>>

\* auto_commit_worker: has_changes, _ = has_uncommitted_changes(repo_path); if has_changes
WorkerStatus(w) ==
    /\ pc # "exited"
    /\ w \in workers /\ wpc = "status"
    /\ wpc' = IF has_uncommitted_changes THEN "add" ELSE "wait"
    /\ NoTransition
    /\ UNCHANGED <<callVars, gitVars, observerVars, ahead, pushed, original_state, observed>>

\* auto_commit_worker: git add . (its outcome is not looked at)
WorkerAdd(w) ==
    /\ pc # "exited"
    /\ w \in workers /\ wpc = "add"
    /\ \E ok \in BOOLEAN :
          /\ staged' = IF ok THEN Porcelain ELSE staged
          /\ unstaged' = IF ok THEN {} ELSE unstaged
    /\ wpc' = "commit"
    /\ NoTransition
    /\ UNCHANGED <<callVars, curBranch, branches, observerVars, ahead, pushed,
                   original_state, observed>>

\* Mutant of WorkerCommit: a failed git commit ends the worker thread.
WorkerCommitFatal(w) ==
    /\ pc # "exited"
    /\ w \in workers /\ wpc = "commit"
    /\ \E ok \in {FALSE, CanCommit /\ Len(ahead) <= MaxCommits} :
          /\ staged' = IF ok THEN {} ELSE staged
          /\ ahead' = IF ok /\ is_vibe_branch(curBranch)
                      THEN Append(ahead, AutoMessage) ELSE ahead
          /\ workers' = IF ok THEN workers ELSE workers \ {w}
    /\ wpc' = "wait"
    /\ NoTransition
    /\ UNCHANGED <<callVars, curBranch, branches, unstaged, running, started, handlerVars,
                   pushed, original_state, observed>>

\* auto_commit_worker: git commit -m "Auto-commit <timestamp>" --no-verify (its
\* outcome is not looked at); the commit lands on the checked-out branch. The
\* followed history is kept within MaxCommits + 1 commits.
WorkerCommit(w) ==
    /\ pc # "exited"
    /\ w \in workers /\ wpc = "commit"
    /\ \E ok \in {FALSE, CanCommit /\ Len(ahead) <= MaxCommits} :
          /\ staged' = IF ok THEN {} ELSE staged
          /\ ahead' = IF ok /\ is_vibe_branch(curBranch)
                      THEN Append(ahead, AutoMessage) ELSE ahead
    /\ wpc' = "wait"
    /\ NoTransition
    /\ UNCHANGED <<callVars, curBranch, branches, unstaged, observerVars, pushed,
                   original_state, observed>>

\* The loop condition is evaluated between two rounds only.
WorkerLeaves(w) == WorkerExit(w) /\ wpc = "wait"

\* A session vibing on vibe-1 with its watcher and worker; the branch has up to
\* MaxCommits auto-commits since the merge-base.
InitWorker ==
    /\ \E e \in BOOLEAN : session = VibingState(VibeBranchName(1), 1, e)
    /\ pc = "ready" /\ op = "none" /\ result = "none"
    /\ cmdLog = <<>> /\ trans = <<>> /\ local = NoLocal
    /\ branches = {"main", VibeBranchName(1)} /\ curBranch = VibeBranchName(1)
    /\ unstaged \in {{}, Files} /\ staged = {}
    /\ running = {1} /\ started = 1 /\ workers = {1}
    /\ handler = NewHandler /\ clock = 0 /\ delivered = <<>>
    /\ \E n \in 0..MaxCommits : ahead = [i \in 1..n |-> AutoMessage]
    /\ pushed = <<>> /\ wpc = "wait"
    /\ original_state = IdleState /\ observed = {}
    /\ NoUtil

\* The client stops the session while files change and the worker runs.
NextWorker ==
    \/ Call("stop")
    \/ Deliver
    \/ StopCount
    \/ StopResetHistory
    \/ StopSquashHistory
    \/ StopPushHistory
    \/ StopOtherStep
    \/ \E kind \in EventKinds : FileEvent(kind, MaxTime)
    \/ \E w \in Ids : WorkerWait(w)
    \/ \E w \in Ids : WorkerStatus(w)
    \/ \E w \in Ids : WorkerAdd(w)
    \/ \E w \in Ids : WorkerCommit(w)
    \/ \E w \in Ids : WorkerLeaves(w)

SpecWorker == InitWorker /\ [][NextWorker]_vars

\* The worker thread keeps being scheduled: commit_event.wait returns after a
\* second at the latest, and each git command of a round returns.
SpecWorkerFair ==
    /\ SpecWorker
    /\ \A w \in Ids : /\ WF_vars(WorkerStatus(w))
                       /\ WF_vars(WorkerAdd(w))
                       /\ WF_vars(WorkerCommit(w))
                       /\ WF_vars(WorkerLeaves(w))

\* --------------------------------- atomic_state_transition, studied alone
\* The values session.state takes in a with block.
AtomicStates == {IdleState, VibingState(VibeBranchName(1), 1, FALSE),
                 DirtyState(VibeBranchName(1), Files)}

\* with atomic_state_transition(session): original_state = session.state
AtomicEnter ==
    /\ pc = "ready"
    /\ pc' = "with_body" /\ op' = "transition"
    /\ original_state' = session /\ observed' = {}
    /\ NoTransition
    /\ UNCHANGED <<result, cmdLog, local, gitVars, observerVars, ahead, pushed, wpc>>

\* The body of the with block calls session.transition_to(new_state).
AtomicBodyTransition(new_state) ==
    /\ pc = "with_body"
    /\ TransitionTo(new_state)
    /\ UNCHANGED <<callVars, gitVars, observerVars, studyVars>>

\* The body raises an Exception: session.state = original_state, then raise.
AtomicRaise ==
    /\ pc = "with_body"
    /\ session' = original_state /\ trans' = <<>>
    /\ pc' = "done" /\ result' = "raised"
    /\ UNCHANGED <<op, cmdLog, local, gitVars, observerVars, studyVars>>

\* The body ends without an exception.
AtomicExit ==
    /\ pc = "with_body"
    /\ pc' = "done" /\ result' = "returned"
    /\ NoTransition
    /\ UNCHANGED <<op, cmdLog, local, gitVars, observerVars, studyVars>>

\* auto_commit_worker evaluates isinstance(session.state, VibingState): it reads
\* session.state as it is at that moment, and leaves its loop unless it is a
\* VibingState.
WorkerReadsState(w) ==
    /\ w \in workers
    /\ pc = "with_body" => observed' = observed \cup {session}
    /\ pc # "with_body" => observed' = observed
    /\ workers' = IF IsVibing(session) THEN workers ELSE workers \ {w}
    /\ NoTransition
    /\ UNCHANGED <<callVars, gitVars, running, started, handlerVars, ahead, pushed, wpc,
                   original_state>>

\* A session in any state beside a live worker thread.
InitAtomic ==
    /\ session \in AtomicStates
    /\ pc = "ready" /\ op = "none" /\ result = "none"
    /\ cmdLog = <<>> /\ trans = <<>> /\ local = NoLocal
    /\ branches = {"main", VibeBranchName(1)} /\ curBranch = VibeBranchName(1)
    /\ unstaged = {} /\ staged = {}
    /\ running = {} /\ started = 1 /\ workers = {1}
    /\ handler = NewHandler /\ clock = 0 /\ delivered = <<>>
    /\ NoStudy /\ NoUtil

NextAtomic ==
    \/ AtomicEnter
    \/ \E new_state \in AtomicStates : AtomicBodyTransition(new_state)
    \/ AtomicRaise
    \/ AtomicExit
    \/ Deliver
    \/ \E w \in Ids : WorkerReadsState(w)

SpecAtomic == InitAtomic /\ [][NextAtomic]_vars

\* ------------------------------------------ utility functions, taken alone
\* The server at rest while a utility function is studied.
ServerAtRest ==
    /\ session = IdleState
    /\ pc = "ready" /\ op = "none" /\ result = "none"
    /\ cmdLog = <<>> /\ trans = <<>> /\ local = NoLocal
    /\ branches = {"main"} /\ curBranch = "main"
    /\ unstaged = {} /\ staged = {}
    /\ running = {} /\ started = 0 /\ workers = {}
    /\ handler = NewHandler /\ clock = 0 /\ delivered = <<>>
    /\ NoStudy

\* A utility function is applied: nothing of the server moves.
Apply(fn, args, value) ==
    /\ call' = [fn |-> fn, args |-> args]
    /\ ret' = value
    /\ NoTransition
    /\ UNCHANGED <<callVars, gitVars, running, started, workers, handler, clock, delivered,
                   studyVars>>

\* state_utils.get_state_name
get_state_name(state) ==
    CASE state.kind = "Idle" -> "idle"
      [] state.kind = "Vibing" -> "vibing"
      [] state.kind = "Dirty" -> "dirty"

\* state_utils.validate_state_transition: None, or the ValueError's message
validate_state_transition(from_state, to_state) ==
    IF ~can_transition_to(from_state.kind, to_state.kind)
    THEN "Invalid state transition from " \o get_state_name(from_state)
            \o " to " \o get_state_name(to_state)
    ELSE "None"

\* state_utils.get_allowed_transitions: the list of allowed state types
get_allowed_transitions(state) ==
    CASE state.kind = "Idle" -> <<"Vibing", "Dirty">>
      [] state.kind = "Vibing" -> <<"Idle">>
      [] state.kind = "Dirty" -> <<"Idle", "Vibing">>

\* Session states of every type the functions are applied to.
SampleStates ==
    {IdleState}
    \cup {VibingState(VibeBranchName(t), t, e) : t \in Ids, e \in BOOLEAN}
    \cup {DirtyState(b, Files) : b \in {"main"} \cup {VibeBranchName(t) : t \in Ids}}

InitStateUtils == ServerAtRest /\ NoUtil

NextStateUtils ==
    \/ \E f, t \in SampleStates :
          /\ Apply("can_transition_to", <<f, t>>, can_transition_to(f.kind, t.kind))
          /\ UNCHANGED store
    \/ \E f, t \in SampleStates :
          /\ Apply("validate_state_transition", <<f, t>>, validate_state_transition(f, t))
          /\ UNCHANGED store
    \/ \E state \in SampleStates :
          /\ Apply("get_allowed_transitions", <<state>>, get_allowed_transitions(state))
          /\ UNCHANGED store

SpecStateUtils == InitStateUtils /\ [][NextStateUtils]_vars

\* ------------------------------------- should_ignore_path, on real paths
\* Path(path).parts: "/" is the anchor of an absolute path.
PathParts == {"/", "repo", ".git", "f.py"}
SeqsOfLen(n) == [1..n -> PathParts]
Paths == {p \in UNION {SeqsOfLen(n) : n \in 1..MaxParts} :
             \A i \in 2..Len(p) : p[i] # "/"}

\* self.repo_path: the absolute path find_git_repo returned
RepoPath == <<"/", "repo">>

\* The exit codes of git check-ignore: 0 ignored, 1 not ignored, 128 fatal.
CheckIgnoreCodes == {0, 1, 128}

\* PurePath.relative_to: the path below other, or ValueError
relative_to(path, other) ==
    IF Len(other) <= Len(path) /\ SubSeq(path, 1, Len(other)) = other
    THEN [raised |-> "", value |-> SubSeq(path, Len(other) + 1, Len(path))]
    ELSE [raised |-> "ValueError", value |-> <<>>]

\* VibeFileHandler.should_ignore_path, check-ignore exiting with exit_code
\* when it is run
should_ignore(path, exit_code) ==
    IF \E i \in 1..Len(path) : path[i] = ".git"
    THEN TRUE
    ELSE IF relative_to(path, RepoPath).raised = "ValueError"
         THEN TRUE
         ELSE exit_code = 0

InitIgnore == ServerAtRest /\ NoUtil

NextIgnore ==
    \E path \in Paths, exit_code \in CheckIgnoreCodes :
       /\ Apply("should_ignore_path", <<path, exit_code>>, should_ignore(path, exit_code))
       /\ UNCHANGED store

SpecIgnore == InitIgnore /\ [][NextIgnore]_vars

\* --------------------------------------------- find_git_repo, taken alone
\* The names a directory entry can have, one of them exactly ".git".
EntryNames == {".git", ".GIT"}

\* The directories from the filesystem root (level 0) down to the working
\* directory (level depth), each with its entries.
Chains == UNION {[0..depth -> SUBSET EntryNames] : depth \in 0..(MaxParts - 1)}

\* The working directory of a chain.
Cwd(entries) == Cardinality(DOMAIN entries) - 1

\* find_git_repo from directory current: the loop runs while current differs
\* from its parent, which only the filesystem root does not.
RECURSIVE find_from(_, _)
find_from(entries, current) ==
    IF current # 0
    THEN IF ".git" \in entries[current]
         THEN [raised |-> "", value |-> current]
         ELSE find_from(entries, current - 1)
    ELSE [raised |-> "Not in a git repository", value |-> 0]

\* find_git_repo: current = Path.cwd()
find_git_repo(entries) == find_from(entries, Cwd(entries))

InitFind == ServerAtRest /\ NoUtil

NextFind ==
    \E entries \in Chains :
       /\ Apply("find_git_repo", <<entries>>, find_git_repo(entries))
       /\ UNCHANGED store

SpecFind == InitFind /\ [][NextFind]_vars

\* ---------------------------------------------------------------------
\* state_persistence.SessionPersistence, studied on its own.  The state file
\* holds decodable text: a JSON object (a set of <<key, type, text>>
\* members), a JSON array, or text that is not JSON.  Timestamps of the
\* events are left out.
MaxEvents == 3

FieldNames == {"branch_name", "session_start_time", "last_commit_time", "pr_url",
               "auto_commit_enabled"}
RequiredFields == {"branch_name", "session_start_time"}

\* PersistedSessionState; Python's None is written "None".
PersistedStates ==
    {[branch_name |-> "vibe-1", session_start_time |-> "t0", last_commit_time |-> l,
      pr_url |-> "None", auto_commit_enabled |-> a] : l \in {"None", "t1"}, a \in BOOLEAN}

json_str(v) == IF v = "None" THEN <<"null", "">> ELSE <<"string", v>>
json_bool(v) == <<"bool", IF v THEN "true" ELSE "false">>

\* json.dumps(state.to_dict(), indent=2)
json_dumps(state) ==
    [kind |-> "object",
     members |-> {<<"branch_name">> \o json_str(state.branch_name),
                  <<"session_start_time">> \o json_str(state.session_start_time),
                  <<"last_commit_time">> \o json_str(state.last_commit_time),
                  <<"pr_url">> \o json_str(state.pr_url),
                  <<"auto_commit_enabled">> \o json_bool(state.auto_commit_enabled)}]

\* The Python value of a JSON member.
json_value(m) ==
    IF m[2] = "null" THEN "None" ELSE IF m[2] = "bool" THEN m[3] = "true" ELSE m[3]

\* PersistedSessionState.from_dict(json.loads(text)): cls(**data) with the
\* dataclass defaults; any value is taken as it comes.
from_dict(content) ==
    LET keys == {m[1] : m \in content.members}
        field(k, default) ==
            IF k \in keys THEN json_value(CHOOSE m \in content.members : m[1] = k)
            ELSE default
    IN  IF content.kind = "text" THEN [raised |-> "JSONDecodeError", value |-> {}]
        ELSE IF content.kind # "object" \/ ~(keys \subseteq FieldNames)
                \/ ~(RequiredFields \subseteq keys)
        THEN [raised |-> "TypeError", value |-> {}]
        ELSE [raised |-> "",
              value |-> {[branch_name |-> field("branch_name", "None"),
                          session_start_time |-> field("session_start_time", "None"),
                          last_commit_time |-> field("last_commit_time", "None"),
                          pr_url |-> field("pr_url", "None"),
                          auto_commit_enabled |-> field("auto_commit_enabled", TRUE)]}]

\* append_event
append_event(st, event) == [st EXCEPT !.events = Append(@, event)]

\* save_session
save_session(st, state) ==
    append_event([st EXCEPT !.state = json_dumps(state), !.tampered = FALSE],
                 [event |-> "session_saved", state |-> json_dumps(state).members])

\* Mutant of load_session: the corrupted file is left in place.
load_session_keeps_file(st) ==
    IF st.state = AbsentFile THEN [ret |-> [raised |-> "", value |-> {}], store |-> st]
    ELSE [ret |-> [raised |-> "", value |-> from_dict(st.state).value], store |-> st]

\* load_session: the value is {} for None and {state} for a loaded state.
load_session(st) ==
    IF st.state = AbsentFile THEN [ret |-> [raised |-> "", value |-> {}], store |-> st]
    ELSE LET loaded == from_dict(st.state)
         IN  IF loaded.raised \in {"JSONDecodeError", "KeyError", "TypeError"}
             THEN [ret |-> [raised |-> "", value |-> {}],
                   store |-> [st EXCEPT !.state = AbsentFile]]
             ELSE [ret |-> loaded, store |-> st]

\* delete_session
delete_session(st) ==
    append_event([st EXCEPT !.state = AbsentFile, !.tampered = FALSE],
                 [event |-> "session_ended", state |-> {}])

\* has_session
has_session(st) == st.state # AbsentFile

\* Files that are not a saved session: not JSON, not an object, a required
\* key missing, an unknown key.
CorruptFiles ==
    {[kind |-> "text", members |-> {}],
     [kind |-> "array", members |-> {}],
     [kind |-> "object", members |-> {<<"branch_name", "string", "vibe-1">>}],
     [kind |-> "object", members |-> {<<"branch_name", "string", "vibe-1">>,
                                      <<"session_start_time", "string", "t0">>,
                                      <<"version", "string", "1">>}]}

SaveSession ==
    \E state \in PersistedStates :
       /\ Len(store.events) < MaxEvents
       /\ Apply("save_session", <<state>>, [raised |-> "", value |-> {}])
       /\ store' = save_session(store, state)

LoadSession ==
    /\ Apply("load_session", <<>>, load_session(store).ret)
    /\ store' = load_session(store).store

DeleteSession ==
    /\ Len(store.events) < MaxEvents
    /\ Apply("delete_session", <<>>, [raised |-> "", value |-> {}])
    /\ store' = delete_session(store)

HasSession ==
    /\ Apply("has_session", <<>>, [raised |-> "", value |-> has_session(store)])
    /\ UNCHANGED store

\* Something outside the program damages the state file.
CorruptFile ==
    \E content \in CorruptFiles :
       /\ Apply("external_write", <<content>>, [raised |-> "", value |-> {}])
       /\ store' = [store EXCEPT !.state = content, !.tampered = TRUE]

InitPersistence == ServerAtRest /\ call = NoCall /\ ret = "none" /\ store = NoStore

NextPersistence == SaveSession \/ LoadSession \/ DeleteSession \/ HasSession \/ CorruptFile

SpecPersistence == InitPersistence /\ [][NextPersistence]_vars

\* ================================================================ claims
\* The success reports of stop_vibing.
StopSuccess == {StopResult(p, c) : p, c \in BOOLEAN}

StopErrors == {"err_branch_point", "err_reset", "err_squash", "err_amend",
               "err_checkout_main", "err_pull", "err_checkout_vibe",
               "err_rebase_push", "err_push", "err_final_checkout"}

\* C1: every call of transition_to, by any operation or by the signal handler,
\* performs one of the five legal transitions.
C1_OnlyLegalTransitions ==
    trans # <<>> => can_transition_to(trans[1], trans[2])

\* C2: when stop, called while Vibing, returns the error of a failed hard step,
\* the session state is Idle.
C2_StopFailureLeavesIdle ==
    (pc = "done" /\ op = "stop" /\ result \in StopErrors) => session.kind = "Idle"

\* C3: when stop returns its success report, the checked-out branch is main (or
\* master in a repository without main) and the session state is Idle.
C3_StopSuccessOnMain ==
    (pc = "done" /\ op = "stop" /\ result \in StopSuccess) =>
        /\ curBranch = "main" \/ ("main" \notin branches /\ curBranch = "master")
        /\ session.kind = "Idle"

C3_Witness == pc = "done" /\ op = "stop" /\ result = "stopped"

\* C4: a start call served while the session is Vibing changes nothing: the
\* session state (branch_name, observer, commit signal), the repository, the
\* observers and the workers are unchanged and no git command is issued.
C4_StartWhileVibingNoOp ==
    [][(pc = "start" /\ session.kind = "Vibing" /\ pc' \notin {"start", "exited"}) =>
          /\ pc' = "done" /\ result' = "already"
          /\ session' = session
          /\ cmdLog' = <<>>
          /\ UNCHANGED <<gitVars, watchVars>>]_vars

C4_Witness ==
    pc = "done" /\ op = "start" /\ result = "already" /\ session.kind = "Vibing"

\* C5: a stop call served while the session is Idle or Dirty issues no command,
\* leaves the session state and the repository unchanged and returns "not vibing".
C5_StopWhileNotVibingNoOp ==
    [][(pc = "stop" /\ session.kind # "Vibing" /\ pc' \notin {"stop", "exited"}) =>
          /\ pc' = "done" /\ result' = "not_vibing"
          /\ session' = session
          /\ cmdLog' = <<>>
          /\ UNCHANGED <<gitVars, watchVars>>]_vars

C5_Witness ==
    pc = "done" /\ op = "stop" /\ result = "not_vibing" /\ session.kind = "Dirty"

\* C6: a status call served while the session is Vibing and the current branch
\* differs from the stored branch_name, or cannot be determined, leaves the
\* session Idle and does not return the VIBING report.
C6_StatusHealsMismatch ==
    [][(/\ pc = "status" /\ session.kind = "Vibing"
        /\ get_current_branch # session.branch_name
        /\ pc' \notin {"status", "exited"}) =>
          /\ pc' = "done" /\ result' # "VIBING"
          /\ session'.kind = "Idle"]_vars

C6_Witness ==
    /\ pc = "done" /\ op = "status" /\ trans = <<"Vibing", "Idle">>
    /\ curBranch = Detached /\ result = "IDLE"

\* C7: whenever no tool call is in progress and the session is Vibing, the
\* checked-out branch is the session's branch_name (no checkout is made outside
\* the tool).
C7_VibingOnItsBranch ==
    (pc \in {"ready", "done"} /\ session.kind = "Vibing") => curBranch = session.branch_name

\* C8: whenever the session state changes from Vibing to Idle or Dirty, the
\* observer of that Vibing state has been asked to stop by then.
C8_ObserverStoppedOnLeavingVibing ==
    [][(session.kind = "Vibing" /\ session'.kind # "Vibing") =>
          session.observer \notin running']_vars

\* C9: at most one filesystem observer is running at any time.
C9_AtMostOneObserver == Cardinality(running) <= 1

\* C10: a start call served while the session is Idle, on a branch that is not a
\* vibe branch, with uncommitted changes, makes the session Dirty with the
\* current branch and the change summary, returns the recovery options, issues
\* only the two queries, and leaves the repository, observers and workers alone.
C10_StartOnDirtyTree ==
    [][(/\ pc = "start" /\ session.kind = "Idle"
        /\ curBranch # Detached /\ ~is_vibe_branch(curBranch)
        /\ has_uncommitted_changes
        /\ pc' \notin {"start", "exited"}) =>
          /\ pc' = "done" /\ result' = "dirty"
          /\ session' = DirtyState(curBranch, Porcelain)
          /\ cmdLog' = <<"branch --show-current", "status --porcelain">>
          /\ UNCHANGED <<gitVars, watchVars>>]_vars

C10_Witness ==
    /\ pc = "done" /\ op = "start" /\ result = "dirty"
    /\ session = DirtyState(curBranch, Files)
    /\ curBranch \in {"main", "master", "dev"} /\ running = {} /\ workers = {}

\* C11: a start call served while the session is Idle, on a branch that is not a
\* vibe branch, with a clean tree: the first step goes on to the checkout of
\* main; "checkout master" is issued only after "checkout main" failed, and the
\* call fails (session Idle, no watcher or worker started) when neither checks
\* out; the pull never ends the call; the creation step either fails the call
\* (session Idle, nothing started) or checks out a branch vibe-<timestamp> that
\* did not exist; the call then ends with the session Vibing on that branch,
\* which is checked out and whose observer runs.
C11_StartOnCleanTree ==
    [][/\ (/\ pc = "start" /\ session.kind = "Idle"
           /\ ~is_vibe_branch(get_current_branch) /\ ~has_uncommitted_changes
           /\ pc' \notin {"start", "exited"}) =>
             /\ pc' = "start_main" /\ session' = session
             /\ UNCHANGED <<curBranch, branches, started>>
       /\ (op = "start" /\ pc = "start_main" /\ pc' \notin {"start_main", "exited"}) =>
             /\ session'.kind = "Idle" /\ started' = started /\ branches' = branches
             /\ \/ /\ pc' = "start_pull" /\ curBranch' = "main"
                   /\ cmdLog' = cmdLog \o <<"checkout main">>
                \/ /\ pc' = "start_pull" /\ curBranch' = "master"
                   /\ cmdLog' = cmdLog \o <<"checkout main", "checkout master">>
                \/ /\ pc' = "done" /\ result' = "err_checkout_main"
                   /\ curBranch' = curBranch
                   /\ cmdLog' = cmdLog \o <<"checkout main", "checkout master">>
       /\ (op = "start" /\ pc = "start_pull" /\ pc' \notin {"start_pull", "exited"}) =>
             /\ pc' = "start_create" /\ session'.kind = "Idle"
             /\ UNCHANGED <<curBranch, branches, started>>
       /\ (op = "start" /\ pc = "start_create" /\ pc' \notin {"start_create", "exited"}) =>
             /\ session'.kind = "Idle" /\ started' = started
             /\ \/ /\ pc' = "start_watch"
                   /\ curBranch' \notin branches /\ curBranch' \in branches'
                   /\ \E t \in 1..MaxTime : curBranch' = VibeBranchName(t)
                   /\ local'.branch_name = curBranch'
                \/ /\ pc' = "done" /\ result' = "err_create"
                   /\ UNCHANGED <<curBranch, branches>>
       /\ (/\ op = "start" /\ local.main_branch # ""
           /\ pc = "start_transition" /\ pc' \notin {"start_transition", "exited"}) =>
             /\ pc' = "done" /\ result' = "created"
             /\ session'.kind = "Vibing" /\ session'.branch_name = local.branch_name
             /\ curBranch' = local.branch_name
             /\ session'.observer \in running'
      ]_vars

C11_Witness ==
    /\ pc = "done" /\ op = "start" /\ result = "created"
    /\ "main" \notin branches /\ "master" \in branches
    /\ session.kind = "Vibing" /\ session.branch_name = curBranch
    /\ curBranch \in {VibeBranchName(t) : t \in 1..MaxTime}
    /\ cmdLog = <<"branch --show-current", "status --porcelain", "checkout main",
                  "checkout master", "pull", "checkout -b">>

\* C12: a start call served while the session is Idle and the current branch is
\* a vibe branch, with a clean or a modified tree, queries the branch and goes
\* on to start the watcher, and then ends with the session Vibing with
\* branch_name the current branch; the only command it issues is the branch
\* query, the checked-out branch and the branches do not change, and the
\* session is never Dirty on the way.
C12_StartResumesOnVibeBranch ==
    [][/\ (/\ pc = "start" /\ session.kind = "Idle"
           /\ is_vibe_branch(get_current_branch)
           /\ pc' \notin {"start", "exited"}) =>
             /\ pc' = "start_watch" /\ session' = session
             /\ cmdLog' = <<"branch --show-current">>
             /\ local'.branch_name = curBranch
             /\ UNCHANGED <<curBranch, branches>>
       /\ (/\ op = "start" /\ local.main_branch = ""
           /\ pc = "start_watch" /\ pc' \notin {"start_watch", "exited"}) =>
             /\ pc' = "start_transition" /\ session'.kind = "Idle"
             /\ UNCHANGED <<cmdLog, curBranch, branches>>
       /\ (/\ op = "start" /\ local.main_branch = ""
           /\ pc = "start_transition" /\ pc' \notin {"start_transition", "exited"}) =>
             /\ pc' = "done" /\ result' = "reused"
             /\ session'.kind = "Vibing" /\ session'.branch_name = curBranch
             /\ cmdLog' = <<"branch --show-current">>
             /\ UNCHANGED <<curBranch, branches>>
      ]_vars

C12_Witness ==
    /\ pc = "done" /\ op = "start" /\ result = "reused"
    /\ session.kind = "Vibing" /\ session.branch_name = "vibe-old" /\ curBranch = "vibe-old"
    /\ has_uncommitted_changes /\ trans = <<"Idle", "Vibing">>
    /\ cmdLog = <<"branch --show-current">>

\* C13: a start call served while the session is Dirty, whatever the working
\* tree looks like by then, issues no command, leaves the session state (stored
\* branch and change summary), the repository, the observers and the workers
\* unchanged, and returns the recovery options.
C13_StartWhileDirtyNoOp ==
    [][(pc = "start" /\ session.kind = "Dirty" /\ pc' \notin {"start", "exited"}) =>
          /\ pc' = "done" /\ result' = "still_dirty"
          /\ session' = session
          /\ cmdLog' = <<>>
          /\ UNCHANGED <<gitVars, watchVars>>]_vars

\* The tree has become clean since the session turned Dirty.
C13_Witness ==
    /\ pc = "done" /\ op = "start" /\ result = "still_dirty"
    /\ session.kind = "Dirty" /\ session.changes = Files
    /\ ~has_uncommitted_changes /\ cmdLog = <<>>

\* C14: whenever start returns success (a branch created, a vibe branch
\* resumed, or already vibing), the branch name stored in the Vibing state,
\* which is the one reported, is "vibe-" followed by a positive integer.
C14_StartBranchMatchesPattern ==
    (pc = "done" /\ op = "start" /\ result \in {"created", "reused", "already"}) =>
        LET b == session.branch_name
            digits == {"0", "1", "2", "3", "4", "5", "6", "7", "8", "9"}
        IN /\ session.kind = "Vibing"
           /\ Len(b) > 5 /\ SubSeq(b, 1, 5) = "vibe-"
           /\ \A i \in 6..Len(b) : SubSeq(b, i, i) \in digits
           /\ \E i \in 6..Len(b) : SubSeq(b, i, i) # "0"

\* C15: a stash_and_vibe or commit_and_vibe call served while the working tree
\* has no uncommitted changes takes the step start takes from Idle in the same
\* repository: on a vibe branch it goes on to start the watcher on that branch,
\* otherwise it goes on to the checkout of main, in both cases with the session
\* Idle and the repository untouched so far.
C15_NoChangesBehavesLikeStart ==
    [][(/\ pc \in {"stash", "commit"} /\ ~has_uncommitted_changes
        /\ pc' \notin {pc, "exited"}) =>
          /\ IF is_vibe_branch(get_current_branch)
             THEN pc' = "start_watch" /\ local'.branch_name = curBranch
             ELSE pc' = "start_main"
          /\ session'.kind = "Idle"
          /\ UNCHANGED gitVars]_vars

C17_VibeFromHere ==
    [][/\ (pc = "vfh" /\ session.kind = "Vibing" /\ pc' \notin {"vfh", "exited"}) =>
             /\ pc' = "done" /\ result' = "already"
             /\ session' = session /\ cmdLog' = <<>>
             /\ UNCHANGED <<gitVars, watchVars>>
       /\ (pc = "vfh" /\ session.kind # "Vibing" /\ pc' \notin {"vfh", "exited"}) =>
             /\ session' = session /\ UNCHANGED watchVars
             /\ IF curBranch = Detached
                THEN /\ pc' = "done" /\ result' = "err_no_branch"
                     /\ UNCHANGED gitVars
                ELSE IF is_vibe_branch(curBranch)
                THEN /\ pc' = "start_watch" /\ local'.branch_name = curBranch
                     /\ cmdLog' = <<"branch --show-current">>
                     /\ UNCHANGED gitVars
                ELSE \/ /\ pc' = "start_watch" /\ local'.branch_name = curBranch'
                        /\ curBranch' \notin branches
                        /\ branches' = branches \cup {curBranch'}
                        /\ \E t \in 1..MaxTime : curBranch' = VibeBranchName(t)
                        /\ cmdLog' = <<"branch --show-current", "checkout -b">>
                        /\ UNCHANGED <<unstaged, staged>>
                     \/ /\ pc' = "done" /\ result' = "err_create"
                        /\ UNCHANGED gitVars
       /\ (op = "vfh" /\ pc = "start_transition" /\ pc' \notin {"start_transition", "exited"}) =>
             /\ pc' = "vfh_changes"
             /\ session'.kind = "Vibing" /\ session'.branch_name = curBranch
             /\ session'.observer \in running'
             /\ UNCHANGED <<curBranch, branches>>
       /\ (op = "vfh" /\ pc = "vfh_changes" /\ pc' \notin {"vfh_changes", "exited"}) =>
             /\ pc' = "done" /\ result' = "vibing_from_here"
             /\ session'.kind = "Vibing" /\ session'.branch_name = curBranch'
             /\ cmdLog' \in {<<"branch --show-current", "status --porcelain">>,
                             <<"branch --show-current", "checkout -b", "status --porcelain">>}
             /\ UNCHANGED <<curBranch, branches>>
      ]_vars

C17_Witness ==
    /\ pc = "done" /\ op = "vfh" /\ result = "vibing_from_here"
    /\ session.kind = "Vibing" /\ session.branch_name = curBranch
    /\ curBranch \in {VibeBranchName(t) : t \in 1..MaxTime}
    /\ "dev" \in branches
    /\ cmdLog = <<"branch --show-current", "checkout -b", "status --porcelain">>

\* C18: once vibe_from_here has returned success with uncommitted changes in
\* the working tree, and as long as no other call is being served, the changes
\* are eventually committed (the tree becomes clean) without any filesystem
\* event, under fair scheduling and with git add and git commit succeeding.
C18_ExistingChangesSweptUp ==
    (pc = "done" /\ op = "vfh" /\ result = "vibing_from_here" /\ has_uncommitted_changes)
        ~> (~has_uncommitted_changes \/ pc \notin {"done", "ready"})

\* C19: an event for a directory, for a path with a .git component, or for a
\* path git check-ignore reports as ignored, handled at any time and any number
\* of times, leaves the commit signal and the handler's last_commit_time as
\* they were.
C19_IgnoredEventsNeverSignal ==
    [][\A kind \in {"dir", "gitdir", "ignored"} :
          HandlerEvent(kind) => (session' = session /\ handler' = handler)]_vars

\* An ignored event handled when a file event would have signalled.
C19_Witness ==
    /\ delivered = <<"ignored", clock>>
    /\ ~RateLimited(handler, clock) /\ handler.last_commit_time < clock
    /\ ~session.commit_event

C21_SignalStopsAndIdles ==
    [][(pc # "exited" /\ pc' = "exited") =>
          /\ session' = IdleState
          /\ trans' = <<session.kind, "Idle">>
          /\ session.kind = "Vibing" => session.observer \notin running']_vars

\* The signal arrived in the middle of a stop of a Vibing session.
C21_Witness ==
    /\ pc = "exited" /\ trans = <<"Vibing", "Idle">>
    /\ session = IdleState /\ running = {} /\ started = 1
    /\ curBranch = "main" /\ branches = {"main", VibeBranchName(1)}

\* C22: in stop, a failed rebase is followed by rebase --abort and recorded as
\* a conflict; in both cases the branch is then force-pushed; a failed push
\* ends stop with the push error of its case; after a successful push stop goes
\* on to the PR attempt and the final checkout, and when it finishes the
\* session is Idle and the success report carries the warning exactly when the
\* rebase had failed.
C22_RebaseFailureForcePushes ==
    [][/\ (pc = "stop_rebase" /\ pc' \notin {"stop_rebase", "exited"}) =>
             /\ pc' = "stop_push" /\ session' = session
             /\ UNCHANGED <<curBranch, branches>>
             /\ \/ cmdLog' = cmdLog \o <<"rebase">> /\ ~local'.had_conflicts
                \/ cmdLog' = cmdLog \o <<"rebase", "rebase --abort">> /\ local'.had_conflicts
       /\ (pc = "stop_push" /\ pc' \notin {"stop_push", "exited"}) =>
             /\ cmdLog' = cmdLog \o <<"push -f">>
             /\ \/ pc' = "stop_pr" /\ local' = local
                \/ /\ pc' = "done"
                   /\ result' = (IF local.had_conflicts THEN "err_rebase_push" ELSE "err_push")
       /\ (pc = "stop_pr" /\ pc' \notin {"stop_pr", "exited"}) =>
             pc' = "stop_final" /\ local'.had_conflicts = local.had_conflicts
       /\ (pc = "stop_final" /\ pc' \notin {"stop_final", "exited"}) =>
             \/ pc' = "stop_finish" /\ local' = local
             \/ pc' = "done" /\ result' = "err_final_checkout"
       /\ (pc = "stop_finish" /\ pc' \notin {"stop_finish", "exited"}) =>
             /\ pc' = "done" /\ session' = IdleState
             /\ result' = StopResult(local.pr_url, local.had_conflicts)
             /\ local.had_conflicts <=> result' \in {StopResult(p, TRUE) : p \in BOOLEAN}
      ]_vars

C22_Witness ==
    /\ pc = "done" /\ op = "stop" /\ result = StopResult(TRUE, TRUE)
    /\ session = IdleState /\ curBranch = "main"
    /\ \E i \in 1..Len(cmdLog) - 4 :
          SubSeq(cmdLog, i, i + 4) =
             <<"rebase", "rebase --abort", "push -f", "gh pr create", "checkout main">>

\* C23: the outcome of gh pr create never makes stop fail: whatever it is, the
\* step goes on to the final checkout without an error and without touching
\* the session; the report carries a PR link only when gh succeeded with
\* output; and no error return of stop follows gh pr create directly, so when
\* the final checkout succeeds stop ends Idle with a success report.
C23_PRFailureIsNotAnError ==
    [][/\ (pc = "stop_pr" /\ pc' \notin {"stop_pr", "exited"}) =>
             /\ pc' = "stop_final" /\ result' = result /\ session' = session
             /\ cmdLog' = cmdLog \o <<"gh pr create">>
       /\ (pc = "stop_final" /\ pc' = "stop_finish") =>
             local'.pr_url = local.pr_url
       /\ (pc = "stop_finish" /\ pc' = "done") =>
             /\ session' = IdleState
             /\ result' \in StopSuccess
             /\ ~local.pr_url <=> result' \in {StopResult(FALSE, c) : c \in BOOLEAN}
      ]_vars

\* A stop that ended well although gh produced no PR link.
C23_Witness ==
    /\ pc = "done" /\ op = "stop" /\ session = IdleState
    /\ result \in {StopResult(FALSE, c) : c \in BOOLEAN}
    /\ Len(cmdLog) >= 2
    /\ SubSeq(cmdLog, Len(cmdLog) - 1, Len(cmdLog)) = <<"gh pr create", "checkout main">>

\* C25: stop reports success only after its final checkout of main succeeded:
\* a success report is returned only by the step that follows that checkout,
\* that step is reached only when the checkout put the repository on main, and
\* a failed final checkout ends stop with 'Error switching back to main',
\* squash, rebase, push and PR creation having succeeded or not.
C25_SuccessOnlyAfterFinalCheckout ==
    [][/\ (pc # "done" /\ pc' = "done" /\ result' \in StopSuccess) =>
             pc = "stop_finish" /\ op = "stop"
       /\ (pc # "stop_finish" /\ pc' = "stop_finish") =>
             /\ pc = "stop_final" /\ curBranch' = "main"
             /\ cmdLog' = cmdLog \o <<"checkout main">>
       /\ (pc = "stop_final" /\ pc' \notin {"stop_final", "stop_finish", "exited"}) =>
             /\ pc' = "done" /\ result' = "err_final_checkout"
             /\ curBranch' = curBranch
             /\ cmdLog' = cmdLog \o <<"checkout main">>
      ]_vars

\* The final checkout failed after rebase, push and PR creation went through.
C25_Witness ==
    /\ pc = "done" /\ op = "stop" /\ result = "err_final_checkout"
    /\ curBranch # "main"
    /\ Len(cmdLog) >= 4
    /\ SubSeq(cmdLog, Len(cmdLog) - 3, Len(cmdLog)) =
          <<"rebase", "push -f", "gh pr create", "checkout main">>

\* The positions of stop_vibing at which it has issued a git command and has
\* another one to issue.
MidStop == {"stop_reset", "stop_squash", "stop_amend", "stop_checkout_main", "stop_pull",
            "stop_checkout_vibe", "stop_rebase", "stop_push", "stop_pr", "stop_final"}

\* C24: after a successful stop of a session that had at least two commits since
\* the merge-base (stop reset and squashed), the pushed vibe branch has exactly
\* one commit beyond the merge-base and it carries the message given to stop,
\* whatever file events and worker steps interleaved with the steps of stop.
C24_PushedBranchIsOneSquashCommit ==
    (/\ pc = "done" /\ op = "stop" /\ result \in StopSuccess
     /\ \E i \in 1..Len(cmdLog) : cmdLog[i] = "reset --soft")
        => pushed = <<StopMessage>>

\* C29: the worker never runs its status, add or commit between two git
\* commands of a stop in progress (for instance between the soft reset and the
\* squash commit, or between the checkout of main and that of the vibe branch).
C29_WorkerKeepsOutOfStop ==
    [][(wpc \in {"status", "add", "commit"} /\ wpc' # wpc) => pc \notin MidStop]_vars

\* C30: the worker runs add only after it consumed a set signal, cleared it, and
\* status reported uncommitted changes, and commit only after that add; when
\* status reports no changes it goes back to waiting without touching the
\* index or the history; an auto-commit is made by the commit step only, one
\* at a time, and that step ends the round: the next needs a new signal.
C30_CommitsOnlyOnSignalAndChanges ==
    [][/\ (wpc # "status" /\ wpc' = "status") =>
             wpc = "wait" /\ session.commit_event /\ ~session'.commit_event
       /\ (wpc # "add" /\ wpc' = "add") =>
             wpc = "status" /\ has_uncommitted_changes
       /\ (wpc # "commit" /\ wpc' = "commit") => wpc = "add"
       /\ (wpc = "status" /\ wpc' # wpc /\ ~has_uncommitted_changes) =>
             wpc' = "wait" /\ UNCHANGED <<ahead, staged, unstaged>>
       /\ (Len(ahead') > Len(ahead) /\ ahead'[Len(ahead')] = AutoMessage) =>
             /\ wpc = "commit" /\ wpc' = "wait"
             /\ ahead' = Append(ahead, AutoMessage)
       /\ (wpc = "commit" /\ wpc' # wpc) => wpc' = "wait"
      ]_vars

\* The worker has committed an edit of a vibing session and waits again.
C30_Witness ==
    /\ pc = "ready" /\ IsVibing(session) /\ ~session.commit_event
    /\ wpc = "wait" /\ unstaged = {} /\ staged = {}
    /\ ahead = [i \in 1..(MaxCommits + 1) |-> AutoMessage]

C27_AtMostOneWorker == Cardinality(workers) <= 1

\* C28: whenever start, vibe_from_here, stash_and_vibe or commit_and_vibe has
\* returned and the session is Vibing, a worker loop is alive.
C28_VibingHasWorker ==
    (pc = "done" /\ op \in {"start", "vfh", "stash", "commit"} /\ IsVibing(session))
        => workers # {}

\* C31: once the session is not Vibing and stays so, every worker loop ends,
\* whether or not the commit signal is set; a worker ends between two rounds,
\* having finished at most the round it was in, and once it has ended no step
\* of a round (status, add, commit) is taken any more.
C31_WorkerTerminates ==
    /\ (~IsVibing(session)) ~> (workers = {} \/ IsVibing(session))
    /\ [][/\ workers' # workers => (workers' = {} /\ wpc = "wait" /\ ~IsVibing(session))
          /\ workers = {} => UNCHANGED <<wpc, ahead, staged>>
         ]_vars

\* A stop went through and the worker is gone, its last round having committed.
C31_Witness ==
    /\ pc = "done" /\ op = "stop" /\ result \in StopSuccess
    /\ session = IdleState /\ workers = {} /\ wpc = "wait"
    /\ Len(ahead) >= 1 /\ ahead[Len(ahead)] = AutoMessage

\* C32: a step of the worker's stage-and-commit (git add, git commit), failed
\* or not, leaves the session state and the set of live workers as they are
\* and takes the worker on (add to commit, commit back to waiting); and a live
\* worker that waits while the session is Vibing takes up a set signal.
C32_CommitFailureNotFatal ==
    /\ [][/\ (wpc = "add" /\ wpc' # wpc) =>
                wpc' = "commit" /\ session' = session /\ workers' = workers
          /\ (wpc = "commit" /\ wpc' # wpc) =>
                wpc' = "wait" /\ session' = session /\ workers' = workers
         ]_vars
    /\ [](\A w \in workers :
             (wpc = "wait" /\ IsVibing(session) /\ session.commit_event)
                => ENABLED WorkerWait(w))

\* Before any stop: git add went through, git commit failed, and the worker
\* waits again in a session that is still Vibing.
C32_Witness ==
    /\ pc = "ready" /\ cmdLog = <<>> /\ result = "none"
    /\ IsVibing(session) /\ workers = {1}
    /\ wpc = "wait" /\ staged = Files /\ unstaged = {}

\* The commands of a complete stop, in the order the claim gives: with or
\* without the fallback to master, the squash, and the abort of a failed rebase.
StopOrder(master, squash, abort) ==
    <<"merge-base main">>
    \o (IF master THEN <<"merge-base master">> ELSE <<>>)
    \o <<"rev-list --count">>
    \o (IF squash THEN <<"reset --soft", "commit", "commit --amend">> ELSE <<>>)
    \o <<"checkout main", "pull", "checkout vibe", "rebase">>
    \o (IF abort THEN <<"rebase --abort">> ELSE <<>>)
    \o <<"push -f", "gh pr create", "checkout main">>

IsPrefix(a, b) == Len(a) <= Len(b) /\ a = SubSeq(b, 1, Len(a))

\* The command whose failure each error of stop reports.
FailedStep(r) ==
    CASE r = "err_branch_point" -> "merge-base master"
      [] r = "err_reset" -> "reset --soft"
      [] r = "err_squash" -> "commit"
      [] r = "err_amend" -> "commit --amend"
      [] r = "err_checkout_main" -> "checkout main"
      [] r = "err_pull" -> "pull"
      [] r = "err_checkout_vibe" -> "checkout vibe"
      [] r \in {"err_rebase_push", "err_push"} -> "push -f"
      [] r = "err_final_checkout" -> "checkout main"

\* C33: at every point of a stop of a Vibing session the commands issued so far
\* are an initial part of the fixed order; when a hard step fails it is the last
\* command issued; gh pr create is issued only by the step reached through a
\* successful push; and stop asks the observer to stop only in its last step,
\* reached through a successful final checkout, which sets the session Idle.
C33_StopStepsInOrder ==
    /\ [](op = "stop" =>
            /\ \E master, squash, abort \in BOOLEAN :
                  IsPrefix(cmdLog, StopOrder(master, squash, abort))
            /\ (pc = "done" /\ result \in StopErrors) =>
                  cmdLog[Len(cmdLog)] = FailedStep(result))
    /\ [][op = "stop" =>
            /\ (pc # "stop_pr" /\ pc' = "stop_pr") =>
                  pc = "stop_push" /\ cmdLog' = cmdLog \o <<"push -f">>
            /\ (Len(cmdLog') > Len(cmdLog) /\ cmdLog'[Len(cmdLog')] = "gh pr create") =>
                  pc = "stop_pr"
            /\ (pc # "stop_finish" /\ pc' = "stop_finish") =>
                  pc = "stop_final" /\ curBranch' = "main"
            /\ (running' # running /\ pc' # "exited") =>
                  /\ pc = "stop_finish" /\ pc' = "done"
                  /\ cmdLog' = cmdLog /\ session' = IdleState
                  /\ cmdLog[Len(cmdLog)] = "checkout main"
         ]_vars

\* A stop that squashed, aborted its rebase and went through to the end.
C33_Witness ==
    /\ pc = "done" /\ op = "stop" /\ result \in StopSuccess
    /\ cmdLog = StopOrder(FALSE, TRUE, TRUE)
    /\ session = IdleState /\ running = {}

\* The five legal transitions, as pairs of state types.
LegalPairs == {<<"Idle", "Vibing">>, <<"Idle", "Dirty">>, <<"Vibing", "Idle">>,
               <<"Dirty", "Idle">>, <<"Dirty", "Vibing">>}

Range(f) == {f[i] : i \in DOMAIN f}

\* C34: can_transition_to accepts exactly the five legal pairs;
\* validate_state_transition returns for those and raises, for each of the
\* other four pairs, an error that names both states; get_allowed_transitions
\* lists for every state exactly the types can_transition_to accepts from it.
C34_TransitionTable ==
    LET kinds == <<call.args[1].kind, call.args[2].kind>> IN
    /\ call.fn = "can_transition_to" => (ret <=> kinds \in LegalPairs)
    /\ call.fn = "validate_state_transition" =>
          IF kinds \in LegalPairs
          THEN ret = "None"
          ELSE /\ kinds \in {<<"Idle", "Idle">>, <<"Vibing", "Vibing">>,
                             <<"Vibing", "Dirty">>, <<"Dirty", "Dirty">>}
               /\ ret = "Invalid state transition from " \o get_state_name(call.args[1])
                           \o " to " \o get_state_name(call.args[2])
    /\ call.fn = "get_allowed_transitions" =>
          /\ Range(ret) = {k \in {"Idle", "Vibing", "Dirty"} :
                              can_transition_to(call.args[1].kind, k)}
          /\ Len(ret) = Cardinality(Range(ret))

\* The transition Vibing -> Dirty has been refused.
C34_Witness ==
    /\ call.fn = "validate_state_transition"
    /\ call.args[1].kind = "Vibing" /\ call.args[2].kind = "Dirty"
    /\ ret = "Invalid state transition from vibing to dirty"

\* C35: for a path without a .git component that denotes a file inside the
\* repository, absolute under the repository root or relative to it,
\* should_ignore_path returns the outcome of check-ignore (true on exit code
\* 0, false on every other); an absolute path outside the repository is ignored.
C35_IgnoreFollowsCheckIgnore ==
    call.fn = "should_ignore_path" =>
        LET path == call.args[1]
            exit_code == call.args[2]
            absolute == path[1] = "/"
            under_root == /\ Len(path) > Len(RepoPath)
                          /\ SubSeq(path, 1, Len(RepoPath)) = RepoPath
        IN  IF \E i \in 1..Len(path) : path[i] = ".git"
            THEN TRUE
            ELSE IF absolute /\ ~under_root /\ path # RepoPath
                 THEN ret = TRUE
                 ELSE (~absolute \/ under_root) => ret = (exit_code = 0)

\* C36: find_git_repo returns the nearest directory, among the working
\* directory and all its ancestors up to and including the filesystem root,
\* that has an entry named exactly .git, and fails with 'Not in a git
\* repository' only when none of them has one.
C36_NearestGitDirectory ==
    call.fn = "find_git_repo" =>
        LET entries == call.args[1]
            holders == {i \in DOMAIN entries : ".git" \in entries[i]}
        IN  IF holders = {}
            THEN ret.raised = "Not in a git repository"
            ELSE /\ ret.raised = ""
                 /\ ret.value \in holders
                 /\ \A i \in holders : i <= ret.value

\* The state the log says is saved: that of the last event when it is a
\* save, none when the log is empty or ends with a delete.
LastSaved(events) ==
    IF events = <<>> \/ events[Len(events)].event # "session_saved" THEN {}
    ELSE from_dict([kind |-> "object", members |-> events[Len(events)].state]).value

\* C37: over any sequence of save_session, delete_session and load_session,
\* load_session returns the most recently saved state when no delete_session
\* followed that save and none otherwise, and has_session agrees with it;
\* loading a corrupted state file returns none and removes the file; each
\* save and each delete appends exactly one event, and nothing else changes
\* the events log.
C37_PersistenceLaws ==
    /\ [][(call'.fn = "save_session" /\ store' # store) =>
             /\ store'.state = json_dumps(call'.args[1])
             /\ LastSaved(store'.events) = {call'.args[1]}]_vars
    /\ [][(call'.fn = "load_session" /\ ~store.tampered) =>
             /\ ret'.raised = "" /\ ret'.value = LastSaved(store.events)
             /\ store' = store]_vars
    /\ [][(call'.fn = "has_session" /\ ~store.tampered) =>
             ret'.value = (LastSaved(store.events) # {})]_vars
    /\ [][(call'.fn = "load_session" /\ store.state \in CorruptFiles) =>
             /\ ret'.raised = "" /\ ret'.value = {}
             /\ store'.state = AbsentFile]_vars
    /\ [][IF call'.fn \in {"save_session", "delete_session"} /\ store' # store
          THEN /\ Len(store'.events) = Len(store.events) + 1
               /\ SubSeq(store'.events, 1, Len(store.events)) = store.events
          ELSE store'.events = store.events]_vars

\* A save was followed by a delete and a load, and a corrupted file was loaded.
C37_Witness ==
    /\ call.fn = "load_session" /\ ret.value = {}
    /\ store.state = AbsentFile /\ store.tampered
    /\ Len(store.events) = 2
    /\ store.events[1].event = "session_saved"
    /\ store.events[2].event = "session_ended"

\* C38: every auto-commit is created while the checked-out branch is the
\* session's vibe branch: the worker never creates a commit on main, also not
\* while stop is between its checkout of main and its checkout of the vibe
\* branch, nor after a stop that failed with main checked out.
C38_AutoCommitsOnVibeBranch ==
    [][(wpc = "commit" /\ wpc' = "wait" /\ staged # {} /\ staged' = {}) =>
          /\ IsVibing(session)
          /\ curBranch = session.branch_name]_vars

\* C39: after a successful stop of a session with exactly one commit since
\* the merge-base (stop did not reset), the tip commit of the pushed vibe
\* branch carries the message passed to stop, as it does for two or more.
C39_SingleCommitCarriesMessage ==
    (/\ pc = "done" /\ op = "stop" /\ result \in StopSuccess
     /\ \A i \in 1..Len(cmdLog) : cmdLog[i] # "reset --soft"
     /\ Len(pushed) = 1)
        => pushed[Len(pushed)] = StopMessage

\* C40: no change is left behind: a modification of a file that is not
\* ignored, made while the session is Vibing (the handler has raised the
\* commit signal for it), is eventually part of an auto-commit (the tree
\* becomes clean) unless the session leaves Vibing, under fair scheduling and
\* with git add and git commit succeeding.
C40_NoChangeLeftBehind ==
    (IsVibing(session) /\ session.commit_event /\ unstaged # {})
        ~> (~has_uncommitted_changes \/ ~IsVibing(session))

====
